---- MODULE Spec2Model ----
(***************************************************************************)
(* QuickPHP (src/src/extension.ts): a VS Code extension that, after a      *)
(* debounce delay, runs the PHP interpreter on the active document and     *)
(* shows the result as an end-of-line decoration.                          *)
(*                                                                         *)
(* Strings are sequences of tokens.  A whitespace character is always a    *)
(* token of its own (" " or "\n"), and the patterns the code searches for  *)
(* ("echo", "print", "$", the temp file path) are whole tokens, so that    *)
(* trim, startsWith, includes and replace are computed on the tokens the   *)
(* way JavaScript computes them on the characters.                         *)
(***************************************************************************)
EXTENDS Integers, Sequences, FiniteSets, TLC

(* ---------------------------- bounds ----------------------------------- *)
MaxLines == 2
MaxInFlight == 2
MaxBurst == 2
MaxEvents == 2

(* ------------------------- program constants --------------------------- *)
executionDelay == 300
defaultPhpPath == "php"
defaultInlineColor == "grey"
LiveTempPath == "__dirname/quickphp.php"
BlockTempPath_Shared == "__dirname/quickphp.php"

BlockTempPath == "__dirname/quickphp_block.php"
NoSelectionMessage == <<"No PHP code selected to execute.">>

(* an exec error is null or carries a message; a path holds a file or not *)
NullError == [isNull |-> TRUE, message |-> <<>>]
ErrorOf(message) == [isNull |-> FALSE, message |-> message]
NoFile == [exists |-> FALSE, content |-> <<>>]
FileOf(content) == [exists |-> TRUE, content |-> content]

(* ------------------------------ strings -------------------------------- *)
IsSpace(t) == t \in {" ", "\n"}

RECURSIVE TrimStart(_)
TrimStart(s) ==
  IF s = <<>> THEN <<>>
  ELSE IF IsSpace(Head(s)) THEN TrimStart(Tail(s)) ELSE s

RECURSIVE TrimEnd(_)
TrimEnd(s) ==
  IF s = <<>> THEN <<>>
  ELSE IF IsSpace(s[Len(s)]) THEN TrimEnd(SubSeq(s, 1, Len(s) - 1)) ELSE s

Trim(s) == TrimEnd(TrimStart(s))

StartsWith(s, p) == Len(s) >= Len(p) /\ SubSeq(s, 1, Len(p)) = p

Includes(s, t) == \E i \in 1..Len(s) : s[i] = t

IndexOf(s, t) ==
  IF Includes(s, t) THEN CHOOSE i \in 1..Len(s) : s[i] = t /\ \A j \in 1..(i - 1) : s[j] # t
  ELSE 0

Replace(s, t, r) ==
  LET k == IndexOf(s, t)
  IN IF k = 0 THEN s ELSE [i \in 1..Len(s) |-> IF i = k THEN r ELSE s[i]]

ToFixed2(ms) ==
  LET h == (ms + 5) \div 10
  IN ToString(h \div 100) \o "." \o ToString((h % 100) \div 10) \o ToString(h % 10)

RECURSIVE JoinLines(_)
JoinLines(ls) ==
  IF ls = <<>> THEN <<>>
  ELSE IF Len(ls) = 1 THEN ls[1]
  ELSE ls[1] \o <<"\n">> \o JoinLines(Tail(ls))

(* ----------------------------- inputs ---------------------------------- *)
Editors == {"A", "B"}

EchoLine == <<" ", "echo", " ", "1", ";">>
DumpLine == <<"var_dump", "(", "1", ")", ";">>
Lines == {EchoLine, DumpLine}

DiskText == EchoLine

Configs ==
  { [phpPath |-> "", inlineColor |-> "", executionDelay |-> 0],
    [phpPath |-> "", inlineColor |-> "blue", executionDelay |-> 500] }

(* the documents an editor can hold: 1..MaxLines lines *)
Docs == UNION {[1..n -> Lines] : n \in 1..MaxLines}

VARIABLES
  activeTextEditor,
  document,
  docText,
  cursor,
  files,
  config,
  timers,
  procs,
  decorations,
  currentDecorationType,
  errorDecorationType,
  burst,
  events,
  subscriptions,
  lastOp

vars == <<activeTextEditor, document, docText, cursor, files, config, timers, procs,
          decorations, currentDecorationType, errorDecorationType, burst, events,
          subscriptions, lastOp>>

(* ------------------------- host editor model --------------------------- *)
GetText(e) == JoinLines(docText[e])

LineCount(e) == Len(docText[e])

ValidLine(e, line) == line >= 0 /\ line < LineCount(e)

LineAt(e, line) == docText[e][line + 1]

(* an unset key reads as "" (0 for a number), which `||` treats as unset *)
GetConfiguration(key) == config[key]

PhpPath == IF GetConfiguration("phpPath") # "" THEN GetConfiguration("phpPath") ELSE defaultPhpPath

ExecCommand(filePath) == <<PhpPath, " ", "\"", filePath, "\"">>

(* lastOp records what the last handler did (a history variable): the      *)
(* handler, its editor, the exception it ended with, the processes it      *)
(* spawned, the files it wrote and deleted, the message it showed, the     *)
(* number of live decorations it found, and for a completion the process   *)
(* and the interpreter's result.                                           *)
NoOp == [op |-> "init", editor |-> "-", fault |-> "none", spawned |-> <<>>, wrote |-> {},
         deleted |-> {}, message |-> <<>>, proc |-> <<>>, outcome |-> <<>>, time |-> "-",
         selected |-> <<>>, before |-> 0, burst |-> 0]

(* --------------------------- clearOutput ------------------------------- *)
(* A decoration state is [decos, cur, err]: the live decoration instances  *)
(* by handle and the two module-level handles (0 is undefined).            *)
DecoState == [decos |-> decorations, cur |-> currentDecorationType, err |-> errorDecorationType]

Dispose(decos, h) == [k \in DOMAIN decos \ {h} |-> decos[k]]

clearOutput_NoDispose(s) == [s EXCEPT !.cur = 0, !.err = 0]

clearOutput(s) ==
  LET s1 == IF s.cur # 0 THEN [s EXCEPT !.decos = Dispose(s.decos, s.cur), !.cur = 0] ELSE s
  IN IF s1.err # 0 THEN [s1 EXCEPT !.decos = Dispose(s1.decos, s1.err), !.err = 0] ELSE s1

(* ------------------------ displayInlineOutput -------------------------- *)
FormattedOutput(output, time, isError) ==
  IF isError THEN <<"Error:", " ">> \o output \o <<" ", "(Execution Time: ", time, "s)">>
  ELSE output \o <<" ", "(Execution Time: ", time, "s)">>

InlineColor(isError) ==
  IF isError THEN "red"
  ELSE IF GetConfiguration("inlineColor") # "" THEN GetConfiguration("inlineColor")
  ELSE defaultInlineColor

(* result: the decoration state, and fault = "lineAt" when lineAt throws   *)
displayInlineOutput(s, output, e, line, time, isError) ==
  IF Trim(output) = <<>> THEN [state |-> s, fault |-> "none"]
  ELSE
    LET s1 == clearOutput(s)
        h == CHOOSE k \in 1..(Cardinality(DOMAIN s1.decos) + 1) : k \notin DOMAIN s1.decos
        deco == [editor |-> e, line |-> line,
                 contentText |-> <<" ", "//", " ">> \o FormattedOutput(output, time, isError),
                 color |-> InlineColor(isError)]
    IN IF ~ValidLine(e, line) THEN [state |-> s1, fault |-> "lineAt"]
       ELSE [state |-> [s1 EXCEPT !.decos = (h :> deco) @@ s1.decos, !.cur = h],
             fault |-> "none"]

(* ----------------------------- updateOutput ---------------------------- *)
clearTimeout_Forgotten(ts) == ts

clearTimeout(ts) == SelectSeq(ts, LAMBDA t : ~t.current)

(* `current` marks the timer the module-level `timeout` handle refers to *)
setTimeout(ts, e) ==
  Append([i \in 1..Len(ts) |-> [ts[i] EXCEPT !.current = FALSE]],
         [editor |-> e, delay |-> executionDelay, current |-> TRUE])

updateOutput(e) ==
  /\ timers' = setTimeout(clearTimeout(timers), e)
  /\ burst' = IF burst < MaxBurst THEN burst + 1 ELSE burst

(* --------------------------- trigger heuristic ------------------------- *)
ShouldEvaluate_VarDump(lineText) ==
  LET currentLineText == Trim(lineText)
  IN \/ StartsWith(currentLineText, <<"echo", " ">>)
     \/ Includes(currentLineText, "print")
     \/ Includes(currentLineText, "var_dump")
     \/ Includes(currentLineText, "$")

ShouldEvaluate(lineText) ==
  LET currentLineText == Trim(lineText)
  IN \/ StartsWith(currentLineText, <<"echo", " ">>)
     \/ Includes(currentLineText, "print")
     \/ Includes(currentLineText, "$")

(* ------------------------------ runPHPCode ----------------------------- *)
WrapPhp(code) == <<"<?php", "\n">> \o code \o <<"\n", "?>">>

(* the synchronous part: the files after it, the paths it wrote and the    *)
(* process it spawned (what the completion callback's closure captures).   *)
(* `overtaken` is history: a live execution spawned later has completed    *)
(* while this one was in flight.                                           *)
runPHPCode(code, e, currentLine) ==
  LET isTempFile == document[e].fsPath = "" \/ document[e].isUntitled
      filePath == IF isTempFile THEN LiveTempPath ELSE document[e].fsPath
  IN [files |-> IF isTempFile THEN [files EXCEPT ![filePath] = FileOf(WrapPhp(code))] ELSE files,
      wrote |-> IF isTempFile THEN {filePath} ELSE {},
      proc |-> [mode |-> "live", editor |-> e, line |-> currentLine, filePath |-> filePath,
                isTempFile |-> isTempFile, command |-> ExecCommand(filePath),
                overtaken |-> FALSE]]

(* ------------------------------- Init ---------------------------------- *)
Init ==
  /\ activeTextEditor = "A"
  /\ \E u \in BOOLEAN :
       document = [e \in Editors |->
                     IF e = "A" /\ u THEN [isUntitled |-> TRUE, fsPath |-> "Untitled-1"]
                     ELSE [isUntitled |-> FALSE, fsPath |-> "/w/" \o e \o ".php"]]
  /\ \E d \in Docs : docText = [e \in Editors |-> IF e = "A" THEN d ELSE <<DiskText>>]
  /\ \E c \in 0..(LineCount("A") - 1) : cursor = [e \in Editors |-> IF e = "A" THEN c ELSE 0]
  /\ files = [p \in {LiveTempPath, BlockTempPath, "/w/A.php", "/w/B.php"} |->
                IF p \in {LiveTempPath, BlockTempPath} THEN NoFile
                ELSE IF p = "/w/A.php" /\ document["A"].isUntitled THEN NoFile
                ELSE FileOf(DiskText)]
  /\ config = [phpPath |-> "", inlineColor |-> "", executionDelay |-> 0]
  /\ timers = <<>>
  /\ procs = <<>>
  /\ decorations = <<>>
  /\ currentDecorationType = 0
  /\ errorDecorationType = 0
  /\ burst = 0
  /\ events = 0
  /\ subscriptions = TRUE
  /\ lastOp = NoOp

(* one more host event reaching the active extension (editor event,        *)
(* command, deactivation), within the bound                                *)
UserEvent ==
  /\ subscriptions
  /\ events < MaxEvents
  /\ events' = events + 1

SetDecoState(s) ==
  /\ decorations' = s.decos
  /\ currentDecorationType' = s.cur
  /\ errorDecorationType' = s.err

(* --------------------- editor events (activate) ------------------------ *)
EditableEditors == {"A"}

RemoveAt(s, i) == SubSeq(s, 1, i - 1) \o SubSeq(s, i + 1, Len(s))

(* the edits of one change event: retype the cursor line, add a line at    *)
(* the end, or delete the last line                                        *)
Edits(e) ==
  {[docText[e] EXCEPT ![cursor[e] + 1] = l] : l \in Lines}
    \cup (IF Len(docText[e]) < MaxLines THEN {Append(docText[e], l) : l \in Lines} ELSE {})
    \cup (IF Len(docText[e]) > 1 THEN {SubSeq(docText[e], 1, Len(docText[e]) - 1)} ELSE {})

Clamp(line, count) == IF line < count THEN line ELSE count - 1

onDidChangeTextDocument(e) ==
  \E text \in Edits(e) \ {docText[e]} :
    /\ subscriptions
    /\ UserEvent
    /\ docText' = [docText EXCEPT ![e] = text]
    /\ cursor' = [cursor EXCEPT ![e] = Clamp(cursor[e], Len(text))]
    /\ IF document[e] = document[activeTextEditor]
         THEN updateOutput(activeTextEditor)
         ELSE UNCHANGED <<timers, burst>>
    /\ lastOp' = [NoOp EXCEPT !.op = "textChange", !.editor = e]
    /\ UNCHANGED <<activeTextEditor, document, files, config, procs,
                   decorations, currentDecorationType, errorDecorationType,
                   subscriptions>>

onDidChangeTextEditorSelection(e) ==
  \E line \in 0..(LineCount(e) - 1) :
    /\ subscriptions
    /\ UserEvent
    /\ cursor' = [cursor EXCEPT ![e] = line]
    /\ updateOutput(e)
    /\ lastOp' = [NoOp EXCEPT !.op = "selectionChange", !.editor = e]
    /\ UNCHANGED <<activeTextEditor, document, docText, files, config, procs,
                   decorations, currentDecorationType, errorDecorationType,
                   subscriptions>>

FocusEditor(e) ==
  /\ e # activeTextEditor
  /\ UserEvent
  /\ activeTextEditor' = e
  /\ lastOp' = [NoOp EXCEPT !.op = "focus", !.editor = e]
  /\ UNCHANGED <<document, docText, cursor, files, config, timers, procs,
                 decorations, currentDecorationType, errorDecorationType,
                 burst, subscriptions>>

ChangeConfiguration(c) ==
  /\ c # config
  /\ UserEvent
  /\ config' = c
  /\ lastOp' = [NoOp EXCEPT !.op = "config"]
  /\ UNCHANGED <<activeTextEditor, document, docText, cursor, files, timers,
                 procs, decorations, currentDecorationType,
                 errorDecorationType, burst, subscriptions>>

(* ------------------ the debounce timer's callback ---------------------- *)
TimerCallback(e) ==
  LET currentLine == cursor[e]
      currentLineText == LineAt(e, currentLine)
  IN IF ShouldEvaluate(currentLineText)
     THEN LET r == runPHPCode(GetText(e), e, currentLine)
          IN [files |-> r.files, wrote |-> r.wrote, spawned |-> <<r.proc>>, deco |-> DecoState]
     ELSE [files |-> files, wrote |-> {}, spawned |-> <<>>, deco |-> clearOutput(DecoState)]

TimerFire_Cancel(k) ==
  LET e == timers[k].editor
      r == TimerCallback(e)
  IN /\ Len(procs) + Len(r.spawned) <= MaxInFlight
     /\ timers' = RemoveAt(timers, k)
     /\ burst' = 0
     /\ files' = r.files
     /\ procs' = IF r.spawned = <<>> THEN procs ELSE r.spawned
     /\ SetDecoState(r.deco)
     /\ lastOp' = [NoOp EXCEPT !.op = "fire", !.editor = e, !.burst = burst,
                               !.before = Cardinality(DOMAIN decorations),
                               !.spawned = r.spawned, !.wrote = r.wrote]
     /\ UNCHANGED <<activeTextEditor, document, docText, cursor, config,
                    events, subscriptions>>

TimerFire(k) ==
  LET e == timers[k].editor
      r == TimerCallback(e)
  IN /\ Len(procs) + Len(r.spawned) <= MaxInFlight
     /\ timers' = RemoveAt(timers, k)
     /\ burst' = 0
     /\ files' = r.files
     /\ procs' = procs \o r.spawned
     /\ SetDecoState(r.deco)
     /\ lastOp' = [NoOp EXCEPT !.op = "fire", !.editor = e, !.burst = burst,
                               !.before = Cardinality(DOMAIN decorations),
                               !.spawned = r.spawned, !.wrote = r.wrote]
     /\ UNCHANGED <<activeTextEditor, document, docText, cursor, config,
                    events, subscriptions>>

(* ----------------------- the interpreter process ----------------------- *)
(* What exec hands to its callback: error (Null or its message), stdout,   *)
(* stderr.  The interpreter is opaque; its diagnostics name the file it    *)
(* was given, and a non-zero exit makes exec build the error message from  *)
(* the command line and stderr.                                            *)
CommandFailed(command, stderr) == <<"Command failed:", " ">> \o command \o <<"\n">> \o stderr

WarningText(filePath) ==
  <<"PHP Warning:", " ", "Undefined variable", " ", "in", " ", filePath, " ", "on line 2", "\n">>

FatalText(filePath) ==
  <<"PHP Fatal error:", " ", "Uncaught Error", " ", "in", " ", filePath, ":2", "\n",
    "thrown", " ", "in", " ", filePath, " ", "on line 2", "\n">>

(* the results a process can end with, and the milliseconds it took *)
Outcomes(p) ==
  { [error |-> NullError, stdout |-> <<"1", "\n">>, stderr |-> <<>>, ms |-> 1234],
    [error |-> NullError, stdout |-> <<"1", "\n">>, stderr |-> <<>>, ms |-> 4],
    [error |-> NullError, stdout |-> <<"\n">>, stderr |-> <<>>, ms |-> 1234],
    [error |-> NullError, stdout |-> <<>>, stderr |-> WarningText(p.filePath), ms |-> 1234],
    [error |-> NullError, stdout |-> <<>>, stderr |-> <<"\n">>, ms |-> 1234],
    [error |-> ErrorOf(CommandFailed(p.command, <<>>)), stdout |-> <<"1">>, stderr |-> <<>>,
     ms |-> 1234],
    [error |-> ErrorOf(CommandFailed(p.command, FatalText(p.filePath))), stdout |-> <<>>,
     stderr |-> FatalText(p.filePath), ms |-> 1234] }

Unlink(fs, filePath) ==
  IF ~fs[filePath].exists THEN [files |-> fs, deleted |-> {}, fault |-> "unlink"]
  ELSE [files |-> [fs EXCEPT ![filePath] = NoFile], deleted |-> {filePath}, fault |-> "none"]

(* --------------------- runPHPCode: exec callback ----------------------- *)
IsFailure_ErrorOnly(o) == ~o.error.isNull

IsFailure(o) == ~o.error.isNull \/ o.stderr # <<>>

ErrorText(o) ==
  IF Trim(o.stderr) # <<>> THEN Trim(o.stderr)
  ELSE IF ~o.error.isNull THEN o.error.message ELSE <<"Unknown error">>

LiveErrorMessage(p, o) ==
  IF p.isTempFile THEN Replace(ErrorText(o), p.filePath, "Current File") ELSE ErrorText(o)

LiveOutput(p, o) ==
  IF IsFailure(o) THEN <<"Error:", " ">> \o LiveErrorMessage(p, o) ELSE Trim(o.stdout)

LiveDisplay_DropStale(p, o) ==
  IF p.overtaken THEN [state |-> DecoState, fault |-> "none"]
  ELSE displayInlineOutput(clearOutput(DecoState), LiveOutput(p, o), p.editor, p.line,
                           ToFixed2(o.ms), IsFailure(o))

LiveDisplay_NoClear(p, o) ==
  displayInlineOutput(DecoState, LiveOutput(p, o), p.editor, p.line, ToFixed2(o.ms),
                      IsFailure(o))

(* both branches: clearOutput, then displayInlineOutput *)
LiveDisplay(p, o) ==
  displayInlineOutput(clearOutput(DecoState), LiveOutput(p, o), p.editor, p.line,
                      ToFixed2(o.ms), IsFailure(o))

LiveCallback(p, o) ==
  LET executionTime == ToFixed2(o.ms)
      d == LiveDisplay(p, o)
      u == IF d.fault = "none" /\ p.isTempFile THEN Unlink(files, p.filePath)
           ELSE [files |-> files, deleted |-> {}, fault |-> d.fault]
  IN [deco |-> d.state, files |-> u.files, deleted |-> u.deleted, fault |-> u.fault,
      time |-> executionTime]

(* the processes spawned before procs[i] that are still in flight have now *)
(* been overtaken by it                                                    *)
Overtake(ps, i) ==
  [j \in 1..Len(ps) |-> IF j < i /\ ps[j].mode = "live" THEN [ps[j] EXCEPT !.overtaken = TRUE]
                        ELSE ps[j]]

CompleteLive(i) ==
  /\ procs[i].mode = "live"
  /\ \E o \in Outcomes(procs[i]) :
       LET r == LiveCallback(procs[i], o)
       IN /\ procs' = RemoveAt(Overtake(procs, i), i)
          /\ files' = r.files
          /\ SetDecoState(r.deco)
          /\ lastOp' = [NoOp EXCEPT !.op = "completeLive", !.editor = procs[i].editor,
                                    !.before = Cardinality(DOMAIN decorations),
                                    !.proc = <<procs[i]>>, !.outcome = <<o>>, !.time = r.time,
                                    !.deleted = r.deleted, !.fault = r.fault]
          /\ UNCHANGED <<activeTextEditor, document, docText, cursor, config,
                         timers, burst, events, subscriptions>>

(* --------------------------- runSelectedBlock -------------------------- *)
(* the selection is an input of the command: nothing, the leading blank of *)
(* the cursor line, or the whole cursor line                               *)
Selections(e) ==
  LET text == LineAt(e, cursor[e])
  IN {<<>>, SubSeq(text, 1, Len(text) - Len(TrimStart(text))), text}

runSelectedBlock_NoTrim(e, selectedText) ==
  IF selectedText = <<>>
  THEN [files |-> files, wrote |-> {}, spawned |-> <<>>,
        message |-> <<"error", NoSelectionMessage>>]
  ELSE [files |-> [files EXCEPT ![BlockTempPath] = FileOf(selectedText)], wrote |-> {BlockTempPath},
        spawned |-> <<[mode |-> "block", editor |-> e, line |-> cursor[e],
                       filePath |-> BlockTempPath, isTempFile |-> TRUE,
                       command |-> ExecCommand(BlockTempPath), overtaken |-> FALSE]>>,
        message |-> <<>>]

runSelectedBlock(e, selectedText) ==
  IF Trim(selectedText) = <<>>
  THEN [files |-> files, wrote |-> {}, spawned |-> <<>>,
        message |-> <<"error", NoSelectionMessage>>]
  ELSE [files |-> [files EXCEPT ![BlockTempPath] = FileOf(selectedText)], wrote |-> {BlockTempPath},
        spawned |-> <<[mode |-> "block", editor |-> e, line |-> cursor[e],
                       filePath |-> BlockTempPath, isTempFile |-> TRUE,
                       command |-> ExecCommand(BlockTempPath), overtaken |-> FALSE]>>,
        message |-> <<>>]

RunBlockCommand ==
  \E selectedText \in Selections(activeTextEditor) :
    LET r == runSelectedBlock(activeTextEditor, selectedText)
    IN /\ subscriptions
       /\ Len(procs) + Len(r.spawned) <= MaxInFlight
       /\ UserEvent
       /\ files' = r.files
       /\ procs' = procs \o r.spawned
       /\ lastOp' = [NoOp EXCEPT !.op = "runBlock", !.editor = activeTextEditor,
                                 !.before = Cardinality(DOMAIN decorations),
                                 !.spawned = r.spawned, !.wrote = r.wrote,
                                 !.message = r.message, !.selected = selectedText]
       /\ UNCHANGED <<activeTextEditor, document, docText, cursor, config,
                      timers, decorations, currentDecorationType,
                      errorDecorationType, burst, subscriptions>>

BlockCallback(p, o) ==
  LET u == Unlink(files, p.filePath)
  IN [deco |-> IF IsFailure(o) THEN clearOutput(DecoState) ELSE DecoState,
      message |-> IF IsFailure(o) THEN <<"error", ErrorText(o)>>
                  ELSE <<"information", Trim(o.stdout)>>,
      files |-> u.files, deleted |-> u.deleted, fault |-> u.fault]

CompleteBlock(i) ==
  /\ procs[i].mode = "block"
  /\ \E o \in Outcomes(procs[i]) :
       LET r == BlockCallback(procs[i], o)
       IN /\ procs' = RemoveAt(procs, i)
          /\ files' = r.files
          /\ SetDecoState(r.deco)
          /\ lastOp' = [NoOp EXCEPT !.op = "completeBlock", !.editor = procs[i].editor,
                                    !.before = Cardinality(DOMAIN decorations),
                                    !.proc = <<procs[i]>>, !.outcome = <<o>>, !.message = r.message,
                                    !.deleted = r.deleted, !.fault = r.fault]
          /\ UNCHANGED <<activeTextEditor, document, docText, cursor, config,
                         timers, burst, events, subscriptions>>

(* ------------------------------ deactivate ----------------------------- *)
(* The host calls deactivate once and disposes context.subscriptions: the  *)
(* two listeners and the command are gone.  deactivate disposes the        *)
(* decoration types the handles refer to; it leaves the handles set and    *)
(* touches neither the timer nor the processes in flight.                  *)
deactivate ==
  /\ subscriptions
  /\ UserEvent
  /\ subscriptions' = FALSE
  /\ decorations' = Dispose(Dispose(decorations, currentDecorationType), errorDecorationType)
  /\ lastOp' = [NoOp EXCEPT !.op = "deactivate", !.before = Cardinality(DOMAIN decorations)]
  /\ UNCHANGED <<activeTextEditor, document, docText, cursor, files, config, timers, procs,
                 currentDecorationType, errorDecorationType, burst>>

(* ------------------------------- Next ---------------------------------- *)
Next ==
  \/ \E e \in EditableEditors : onDidChangeTextDocument(e)
  \/ \E e \in Editors : onDidChangeTextEditorSelection(e)
  \/ \E e \in Editors : FocusEditor(e)
  \/ \E c \in Configs : ChangeConfiguration(c)
  \/ \E k \in 1..Len(timers) : TimerFire(k)
  \/ RunBlockCommand
  \/ \E i \in 1..Len(procs) : CompleteLive(i)
  \/ \E i \in 1..Len(procs) : CompleteBlock(i)
  \/ deactivate

Spec == Init /\ [][Next]_vars

(* a spawned interpreter process eventually exits and exec then runs its   *)
(* callback                                                                *)
ProcessExits == \E i \in 1..Len(procs) : CompleteLive(i) \/ CompleteBlock(i)

(* the same machine started on the two-line document, with fairness *)
InitFair == Init /\ docText["A"] = <<EchoLine, DumpLine>>

SpecFair == InitFair /\ [][Next]_vars /\ WF_vars(ProcessExits)

(* ======================================================================= *)
(*                              the claims                                 *)
(* ======================================================================= *)
Annotations == DOMAIN decorations

AnnotationsOf(e) == {h \in DOMAIN decorations : decorations[h].editor = e}

ReplaceAll(s, t, r) == [i \in 1..Len(s) |-> IF s[i] = t THEN r ELSE s[i]]

IsInfix(part, whole) ==
  \E i \in 0..(Len(whole) - Len(part)) : SubSeq(whole, i + 1, i + Len(part)) = part

(* the cursor line misses the trigger heuristic, in the claims' own words *)
HeuristicMiss(e) ==
  LET t == Trim(LineAt(e, cursor[e]))
  IN /\ ~StartsWith(t, <<"echo", " ">>)
     /\ ~Includes(t, "print")
     /\ ~Includes(t, "$")

Fired == lastOp.op = "fire"

LiveCompleted == lastOp.op = "completeLive"

(* C1: a burst of N >= 1 change events that arrive before any timer fires  *)
(* leaves exactly one timer armed, so exactly one firing results; after    *)
(* that firing no timer is left, it spawned at most one process, and the   *)
(* process got the cursor line and the document text current at fire time. *)
C1_Debounce ==
  /\ burst >= 1 => Len(timers) = 1
  /\ burst = 0 => timers = <<>>
  /\ Fired =>
       /\ timers = <<>>
       /\ Len(lastOp.spawned) <= 1
       /\ \A i \in 1..Len(lastOp.spawned) :
            LET p == lastOp.spawned[i]
            IN /\ p.line = cursor[lastOp.editor]
               /\ ~HeuristicMiss(lastOp.editor)
               /\ p.isTempFile => files[p.filePath] = FileOf(WrapPhp(GetText(lastOp.editor)))

C1_Witness ==
  /\ Fired
  /\ lastOp.burst >= 2
  /\ lastOp.spawned # <<>>
  /\ lastOp.spawned[1].isTempFile

(* C2: at most one annotation (live decoration instance) exists per        *)
(* editor in every reachable state; the only live instance is the one the  *)
(* module-level handle refers to, so a new one never joins an old one     *)
(* (after deactivate the handles still refer to the disposed instances).   *)
C2_OneAnnotation ==
  /\ \A e \in Editors : Cardinality(AnnotationsOf(e)) <= 1
  /\ Annotations \subseteq {currentDecorationType, errorDecorationType} \ {0}
  /\ subscriptions => Annotations = {currentDecorationType, errorDecorationType} \ {0}

C2_Witness ==
  /\ LiveCompleted
  /\ lastOp.before = 1
  /\ Cardinality(Annotations) = 1

C4_Step ==
  (lastOp'.op = "runBlock" /\ Trim(lastOp'.selected) = <<>>) =>
    /\ lastOp'.message = <<"error", NoSelectionMessage>>
    /\ lastOp'.spawned = <<>>
    /\ lastOp'.wrote = {}
    /\ UNCHANGED <<files, procs, timers, decorations, currentDecorationType,
                   errorDecorationType>>

C4_EmptySelection == [][C4_Step]_vars

C4_Witness ==
  /\ lastOp.op = "runBlock"
  /\ lastOp.selected # <<>>
  /\ Trim(lastOp.selected) = <<>>
  /\ lastOp.message = <<"error", NoSelectionMessage>>
  /\ Annotations # {}

(* the completed process, the interpreter's result and the annotation of  *)
(* the last live completion                                                *)
DoneProc == lastOp.proc[1]

DoneOutcome == lastOp.outcome[1]

DoneFailed == ~DoneOutcome.error.isNull \/ DoneOutcome.stderr # <<>>

Shown == {decorations[h] : h \in Annotations}

TimeSuffix == <<" ", "(Execution Time: ", lastOp.time, "s)">>

(* C5: every timer firing that spawns a process runs the interpreter on    *)
(* the editor's full document text as read at fire time (as it is, or      *)
(* wrapped in the script tags), also for a saved document with unsaved     *)
(* edits.                                                                  *)
C5_RunsCurrentBuffer ==
  (Fired /\ lastOp.spawned # <<>>) =>
    LET source == files[lastOp.spawned[1].filePath]
        text == GetText(lastOp.editor)
    IN source \in {FileOf(text), FileOf(WrapPhp(text))}

(* C6: a completed live execution whose annotation is shown is shown red   *)
(* exactly when its stderr is non-empty or its exec error is non-null, and *)
(* otherwise in the configured inline color (grey when unset); a failure   *)
(* whose target line still exists is always shown; and when the trimmed    *)
(* stderr is empty and an exec error exists, the text shown carries that   *)
(* error's message (the temp file path in it redacted).                    *)
C6_ErrorMapping ==
  LiveCompleted =>
    /\ \A d \in Shown :
         d.color = IF DoneFailed THEN "red"
                   ELSE IF config.inlineColor # "" THEN config.inlineColor ELSE "grey"
    /\ (DoneFailed /\ ValidLine(DoneProc.editor, DoneProc.line)) => Shown # {}
    /\ (Trim(DoneOutcome.stderr) = <<>> /\ ~DoneOutcome.error.isNull) =>
         \A d \in Shown :
           IsInfix(IF DoneProc.isTempFile
                   THEN ReplaceAll(DoneOutcome.error.message, LiveTempPath, "Current File")
                   ELSE DoneOutcome.error.message,
                   d.contentText)

C6_Witness ==
  /\ LiveCompleted
  /\ ~DoneOutcome.error.isNull
  /\ DoneOutcome.stderr = <<>>
  /\ \E d \in Shown : d.color = "red"

(* C7: the annotation of a completed live execution with non-empty result  *)
(* text reads `// <text> (Execution Time: <seconds>s)`, <text> being the   *)
(* text handed to the presenter, nothing prepended or appended.            *)
C7_AnnotationFormat ==
  LiveCompleted =>
    \A d \in Shown :
      LET text == IF DoneFailed
                  THEN <<"Error:", " ">> \o
                       (IF DoneProc.isTempFile
                        THEN Replace(ErrorText(DoneOutcome), DoneProc.filePath, "Current File")
                        ELSE ErrorText(DoneOutcome))
                  ELSE Trim(DoneOutcome.stdout)
      IN d.contentText = <<" ", "//", " ">> \o text \o TimeSuffix

(* C8: the annotation of a failed live execution that used the temp file   *)
(* contains no occurrence of the temp file path.                           *)
C8_PathRedacted ==
  (LiveCompleted /\ DoneFailed /\ DoneProc.isTempFile) =>
    \A d \in Shown : ~Includes(d.contentText, LiveTempPath)

(* C9: a live execution writes the live temp file at the spawn, and        *)
(* deletes it at completion, exactly when it created it for this call; an  *)
(* execution of a saved document writes and deletes nothing, so the saved  *)
(* files on disk stay as they were.                                        *)
C9_TempOwnership ==
  /\ \A e \in Editors :
       ~document[e].isUntitled => files[document[e].fsPath] = FileOf(DiskText)
  /\ (Fired /\ lastOp.spawned # <<>>) =>
       lastOp.wrote = IF lastOp.spawned[1].isTempFile THEN {LiveTempPath} ELSE {}
  /\ LiveCompleted =>
       lastOp.deleted = IF DoneProc.isTempFile THEN {LiveTempPath} ELSE {}

(* C10: no callback ends with an uncaught exception.                       *)
C10_NoFault == lastOp.fault = "none"

(* C11: results are applied in completion order with no sequencing: the    *)
(* live completion that ran last decides the annotation (its result on its *)
(* own target line when the result text is non-empty and the line exists,  *)
(* no annotation otherwise), also when a later-spawned execution completed *)
(* before it.                                                              *)
C11_LastCompletionWins ==
  LiveCompleted =>
    IF (DoneFailed \/ Trim(DoneOutcome.stdout) # <<>>)
         /\ ValidLine(DoneProc.editor, DoneProc.line)
    THEN /\ Cardinality(Shown) = 1
         /\ \A d \in Shown :
              /\ d.editor = DoneProc.editor
              /\ d.line = DoneProc.line
              /\ IsInfix(TimeSuffix, d.contentText)
              /\ DoneFailed => d.color = "red"
              /\ ~DoneFailed =>
                   StartsWith(d.contentText, <<" ", "//", " ">> \o Trim(DoneOutcome.stdout))
    ELSE Shown = {}

(* E1 was spawned before E2, E2 completed first, E1 completed afterwards   *)
(* and E1's stale result is the annotation shown                           *)
C11_Witness ==
  /\ LiveCompleted
  /\ DoneProc.overtaken
  /\ \E d \in Shown : d.line = DoneProc.line /\ d.editor = DoneProc.editor

(* C12: the two modes use different files: a step of block mode leaves    *)
(* the live temp file as it was and a step of live mode leaves the block   *)
(* temp file as it was; each mode writes and deletes only its own file.    *)
(* Within one mode nothing is isolated (C12_Witness).                      *)
C12_ModeIsolation ==
  [][ /\ lastOp'.op \in {"runBlock", "completeBlock"} =>
           /\ files'[LiveTempPath] = files[LiveTempPath]
           /\ lastOp'.wrote \cup lastOp'.deleted \subseteq {BlockTempPath}
      /\ lastOp'.op \in {"fire", "completeLive"} =>
           /\ files'[BlockTempPath] = files[BlockTempPath]
           /\ lastOp'.wrote \cup lastOp'.deleted \subseteq {LiveTempPath} ]_vars

(* a live execution of an untitled document is still in flight and the     *)
(* temp file it runs on is gone: the completion of an overlapping live     *)
(* execution has just deleted it                                           *)
C12_Witness ==
  /\ LiveCompleted
  /\ lastOp.deleted = {LiveTempPath}
  /\ \E i \in 1..Len(procs) :
       /\ procs[i].mode = "live"
       /\ procs[i].isTempFile
       /\ ~files[procs[i].filePath].exists

(* C13: a spawned process is never cancelled: every step that is not a    *)
(* completion keeps all in-flight processes (it can only add the one it    *)
(* spawned), and a completion removes exactly the process whose callback   *)
(* ran, after which the only annotation there can be is that process's     *)
(* own.  When processes eventually exit, every process in flight has its   *)
(* callback run: the in-flight list drains.                                *)
C13_NoCancellation ==
  /\ [][ IF lastOp'.op \in {"completeLive", "completeBlock"}
         THEN \E i \in 1..Len(procs) :
                /\ lastOp'.proc = <<procs[i]>>
                /\ procs' \in {RemoveAt(procs, i), RemoveAt(Overtake(procs, i), i)}
                /\ lastOp'.op = "completeLive" =>
                     \A h \in DOMAIN decorations' :
                       /\ decorations'[h].editor = procs[i].editor
                       /\ decorations'[h].line = procs[i].line
         ELSE /\ Len(procs') = Len(procs) + Len(lastOp'.spawned)
              /\ SubSeq(procs', 1, Len(procs)) = procs ]_vars
  /\ (procs # <<>>) ~> (procs = <<>> /\ lastOp.op \in {"completeLive", "completeBlock"})

(* an evaluation was in flight while a later one was spawned, and its      *)
(* callback has now run                                                    *)
C13_Witness ==
  /\ LiveCompleted
  /\ DoneProc.overtaken
  /\ procs = <<>>

(* C14: the delay of the timer an event arms is the executionDelay setting *)
(* as it stands when the event is handled (the default when it is unset).  *)
SettingDelay == IF config.executionDelay # 0 THEN config.executionDelay ELSE executionDelay

IsOutputStatement(lineText) ==
  \E keyword \in {"echo", "print_r", "var_dump"} : StartsWith(Trim(lineText), <<keyword>>)

C15_AutoExecution ==
  (Fired /\ IsOutputStatement(LineAt(lastOp.editor, cursor[lastOp.editor])))
    => lastOp.spawned # <<>>

(* C16: after a live execution completes as a success whose stdout is      *)
(* empty or only whitespace, no annotation exists: the one there was has   *)
(* been disposed and none has been created.                                *)
C16_EmptyOutputClears ==
  (LiveCompleted /\ ~DoneFailed /\ Trim(DoneOutcome.stdout) = <<>>)
    => /\ Annotations = {}
       /\ currentDecorationType = 0
       /\ errorDecorationType = 0

(* such a completion found an annotation in place *)
C16_Witness ==
  /\ LiveCompleted
  /\ ~DoneFailed
  /\ Trim(DoneOutcome.stdout) = <<>>
  /\ DoneOutcome.stdout # <<>>
  /\ lastOp.before = 1
  /\ Annotations = {}

(* C17: the debounce state is per editor: an event that arms the timer of  *)
(* one editor leaves the pending timer of every other editor armed.        *)
TimerOf(ts, e) == \E i \in 1..Len(ts) : ts[i].editor = e

C17_PerEditorTimers ==
  [][ lastOp'.op \in {"selectionChange", "textChange"} =>
        \A a \in Editors : \A b \in Editors \ {a} :
          (TimerOf(timers, a) /\ ~TimerOf(timers, b) /\ TimerOf(timers', b))
            => TimerOf(timers', a) ]_vars

(* C18: a block execution with a non-empty selection writes the selection  *)
(* verbatim to the block temp file only and spawns one process; it leaves  *)
(* the timers, the annotations and the live temp file alone.  Its          *)
(* completion shows an information message and leaves the annotation as it *)
(* is on success, shows an error message and clears the annotation on      *)
(* failure, and in both cases deletes the block temp file.                 *)
BlockFrame ==
  /\ (lastOp.op = "runBlock" /\ Trim(lastOp.selected) # <<>>) =>
       /\ lastOp.wrote = {BlockTempPath}
       /\ files[BlockTempPath] = FileOf(lastOp.selected)
       /\ Len(lastOp.spawned) = 1
       /\ lastOp.spawned[1] = procs[Len(procs)]
       /\ Cardinality(Annotations) = lastOp.before
  /\ lastOp.op = "completeBlock" =>
       /\ lastOp.wrote = {}
       /\ lastOp.deleted \subseteq {BlockTempPath}
       /\ lastOp.spawned = <<>>
       /\ DoneFailed => (Annotations = {} /\ lastOp.message[1] = "error")
       /\ ~DoneFailed =>
            /\ Cardinality(Annotations) = lastOp.before
            /\ lastOp.message = <<"information", Trim(DoneOutcome.stdout)>>

C18_BlockModeFrame ==
  /\ BlockFrame
  /\ lastOp.op = "completeBlock" => lastOp.deleted = {BlockTempPath}

(* C19: once deactivate has run, no step spawns an interpreter process and *)
(* no annotation exists (deactivate disposed the ones there were, so any   *)
(* annotation would be a new one).                                         *)
C19_ShutdownQuiescence ==
  ~subscriptions => (lastOp.spawned = <<>> /\ Annotations = {})

(* C20: whenever no timer is pending and no process is in flight, neither  *)
(* temp file exists.                                                       *)
C20_NoTempFileLeak ==
  (timers = <<>> /\ procs = <<>>)
    => (~files[LiveTempPath].exists /\ ~files[BlockTempPath].exists)

====
